---- MODULE Spec2Model ----
(***************************************************************************)
(* Canvas Finance Tracker: the ledger store (useDB), the derived selectors *)
(* (useDerived), the forms of the panels, the aggregation functions of     *)
(* analytics.js and the memoized formatters of format.js.                  *)
(*                                                                         *)
(* Conventions of the model                                                *)
(*   - ids (uid() strings) are positive integers; the falsy parentId       *)
(*     (null, undefined, "") is Null.                                      *)
(*   - a date string "YYYY-MM-DD" is the record [y, m, d] of its fields,   *)
(*     a month key "YYYY-MM" the record [y, m]; Date objects are instants, *)
(*     counted in hours since 2023-01-01T00:00Z.                           *)
(*   - amounts are exact decimals counted in mills (1/1000 of a unit).     *)
(*   - the amount of a db.budgets record is a JSON value, a number or a    *)
(*     string; the useBudgets store keeps the numbers parseFloat gave.      *)
(*   - a call that never returns has the outcome [kind |-> "hang"].        *)
(***************************************************************************)
EXTENDS Integers, Sequences, FiniteSets

VARIABLES
  items,     \* db.items: sequence of [id, name, type, parentId]
  wallets,   \* db.wallets: sequence of [id, name, currency, initialBalance]
  txs,       \* db.txs: sequence of [date, type, amount, itemId], and, where
             \* the panels save them, also [id, walletId, comment]
  dbBudgets, \* db.budgets: sequence of [itemId, month, amount (a JSON value)]
  budgets,   \* useBudgets' db.budgets: sequence of [itemId, period, amount]
  tz,        \* the host's time zone: local time is UTC + tz hours
  now,       \* the host's clock: the instant new Date() returns
  intFormatters,       \* format.js: the Map from key to formatter of fmtInt
  currency2Formatters, \* format.js: the Map of fmtCurrency2
  constructed,         \* the Intl.NumberFormat objects constructed so far
  nextUid,   \* the id the next uid() call returns
  ops,       \* the number of saves and deletions made in the panels, and of
             \* formatter calls, so far
  ret        \* the last selector call and its outcome, valid for the current db

vars == <<items, wallets, txs, dbBudgets, budgets, tz, now, intFormatters,
          currency2Formatters, constructed, nextUid, ops, ret>>
formatters == <<intFormatters, currency2Formatters, constructed>>
host == <<budgets, tz, now, formatters>>

\* ------------------------------------------------------------------ bounds
MaxItems == 3      \* items of an imported table
MaxTxs == 2        \* transactions of an imported ledger
MaxNewItems == 1   \* items created through the item form
MaxOps == 3        \* saves and deletions made in the panels
MaxItemOps == 2    \* the first of them, among which are those of the items panel
MaxReportTxs == 2  \* transactions of a ledger the budget report sums
MaxBudgets == 2    \* budget records the budget report reads
MaxDateTxs == 2    \* transactions of a ledger dated at month boundaries
MaxSeriesTxs == 2  \* transactions of a ledger the monthly series buckets
MaxImportBudgets == 2  \* budget records of an imported file
MaxStoredBudgets == 2  \* budget records of a db read from localStorage
MaxStructureTxs == 2   \* transactions of a ledger the expense structure reads
MaxGroupTxs == 2       \* transactions of a ledger grouped by item name

\* ------------------------------------------------------------ basic values
Null == 0
Types == {"income", "expense"}

NoCall == [op |-> "none"]

Item(id, name, type, parentId) ==
  [id |-> id, name |-> name, type |-> type, parentId |-> parentId]

DEMO_DB ==
  [items |-> << Item(1, "Salary", "income", Null),
                Item(2, "Freelance", "income", Null),
                Item(3, "Groceries", "expense", Null),
                Item(4, "Restaurants", "expense", Null),
                Item(5, "Transport", "expense", Null) >>,
   wallets |-> << [id |-> 1, name |-> "Cash", currency |-> "RUB",
                   initialBalance |-> 2000000],
                  [id |-> 2, name |-> "Tinkoff debit", currency |-> "RUB",
                   initialBalance |-> 12000000] >>,
   txs |-> << >>,
   budgets |-> << >>]

\* a JSON value of an amount field: a number (in mills) or a string
JNum(n) == [t |-> "number", n |-> n]
JStr(str) == [t |-> "string", s |-> str]

\* Number(v) || 0: a number is itself, a string is the number it spells, and
\* NaN (a string that spells no number) gives 0
NumericStrings == [str \in {"500"} |-> 500000]
NumberOrZero(v) ==
  IF v.t = "number" THEN v.n
  ELSE IF v.s \in DOMAIN NumericStrings THEN NumericStrings[v.s] ELSE 0

\* Math.max(0, n) without the bound
Max0_Identity(n) == n

\* Math.max(0, n)
Max0(n) == IF n < 0 THEN 0 ELSE n

\* a record of db.budgets
Budget(itemId, month, amount) == [itemId |-> itemId, month |-> month, amount |-> amount]

\* t.date.slice(0, 7)
MonthKey(date) == [y |-> date.y, m |-> date.m]

\* --------------------------------------------------------- sequence helpers
\* all sequences over S of length at most n
SeqsUpTo(S, n) == UNION {[1..k -> S] : k \in 0..n}

\* ------------------------------------------------------------ useDerived
\* itemMap = Object.fromEntries(db.items.map(i => [i.id, i])): a later entry
\* with the same id overwrites an earlier one; 0 stands for undefined.
ItemIndex(its, id) ==
  LET hits == {k \in DOMAIN its : its[k].id = id}
  IN IF hits = {} THEN 0 ELSE CHOOSE k \in hits : \A j \in hits : j <= k

HasItem(its, id) == ItemIndex(its, id) # 0

Ids(its) == {its[k].id : k \in DOMAIN its}

\* The loop of getRootId, from the object at index cur (0: undefined).
\* The table holds Len(its) objects, so a walk that has taken Len(its) steps
\* and still has a parent to follow has visited one object twice: the loop
\* returns to a state it was in and never exits.
RECURSIVE RootWalk(_, _, _)
RootWalk(its, cur, fuel) ==
  IF cur = 0 \/ its[cur].parentId = Null
    THEN [kind |-> "return", cur |-> cur]
    ELSE IF fuel = 0
      THEN [kind |-> "hang"]
      ELSE RootWalk(its, ItemIndex(its, its[cur].parentId), fuel - 1)

\* a getRootId that stops at the immediate parent
GetRootId_OneStep(its, itemId) ==
  LET k == ItemIndex(its, itemId)
      p == IF k = 0 THEN 0 ELSE ItemIndex(its, its[k].parentId)
  IN [kind |-> "return",
      val |-> IF p # 0 THEN its[p].id ELSE itemId]

\* a getRootId that resolves an item with a missing parent to that parent's id
GetRootId_MissingParent(its, itemId) ==
  LET k == ItemIndex(its, itemId)
      w == RootWalk(its, k, Len(its))
  IN IF k # 0 /\ its[k].parentId # Null /\ ItemIndex(its, its[k].parentId) = 0
       THEN [kind |-> "return", val |-> its[k].parentId]
     ELSE IF w.kind = "hang" THEN w
     ELSE [kind |-> "return",
           val |-> IF w.cur # 0 THEN its[w.cur].id ELSE itemId]

\* a getRootId that returns cur?.id alone, null for an id of no item
GetRootId_NoFallback(its, itemId) ==
  LET w == RootWalk(its, ItemIndex(its, itemId), Len(its))
  IN IF w.kind = "hang" THEN w
     ELSE [kind |-> "return",
           val |-> IF w.cur # 0 /\ ItemIndex(its, itemId) # 0 THEN its[w.cur].id ELSE Null]

\* getRootId(itemId): return cur?.id || itemId
GetRootId(its, itemId) ==
  LET w == RootWalk(its, ItemIndex(its, itemId), Len(its))
  IN IF w.kind = "hang" THEN w
     ELSE [kind |-> "return",
           val |-> IF w.cur # 0 THEN its[w.cur].id ELSE itemId]

Abs(n) == IF n < 0 THEN -n ELSE n

\* one iteration of the loop of actualByTopLevelForMonth on the Map sums,
\* kept as the sequence of its entries in insertion order
AddActual(its, sums, root, amount) ==
  LET type == its[ItemIndex(its, root)].type
      hit == {k \in DOMAIN sums : sums[k].itemId = root}
  IN IF hit = {}
       THEN Append(sums, [itemId |-> root, amount |-> 0 + Abs(amount), type |-> type])
       ELSE [k \in DOMAIN sums |->
              IF k \in hit
                THEN [itemId |-> root, amount |-> sums[k].amount + Abs(amount), type |-> type]
                ELSE sums[k]]

RECURSIVE ActualLoop(_, _, _, _)
ActualLoop(its, rest, month, sums) ==
  IF rest = << >> THEN [kind |-> "return", val |-> sums]
  ELSE LET t == Head(rest) IN
    IF MonthKey(t.date) # month THEN ActualLoop(its, Tail(rest), month, sums)
    ELSE LET r == GetRootId(its, t.itemId) IN
      IF r.kind = "hang" THEN r
      ELSE IF ~HasItem(its, r.val) THEN ActualLoop(its, Tail(rest), month, sums)
      ELSE ActualLoop(its, Tail(rest), month, AddActual(its, sums, r.val, t.amount))

ActualByTopLevelForMonth(its, ts, month) == ActualLoop(its, ts, month, << >>)

\* ---------------------------------------------------------------- calendar
Date(y, m, d) == [y |-> y, m |-> m, d |-> d]
Month(y, m) == [y |-> y, m |-> m]

IsLeap(y) == y % 4 = 0 /\ (y % 100 # 0 \/ y % 400 = 0)

DaysInMonth(y, m) ==
  IF m = 2 THEN (IF IsLeap(y) THEN 29 ELSE 28)
  ELSE IF m \in {4, 6, 9, 11} THEN 30 ELSE 31

\* the days from 2023-01-01, the origin of the model's instants, to 1 January
\* of year y
RECURSIVE DaysBeforeYear(_)
DaysBeforeYear(y) ==
  IF y <= 2023 THEN 0
  ELSE DaysBeforeYear(y - 1) + (IF IsLeap(y - 1) THEN 366 ELSE 365)

RECURSIVE DaysBeforeMonth(_, _)
DaysBeforeMonth(y, m) ==
  IF m <= 1 THEN 0 ELSE DaysBeforeMonth(y, m - 1) + DaysInMonth(y, m - 1)

\* the day number of year y, month index mi (0-based, 12 and more run into
\* the next years) and day d (0 is the day before the 1st), as the Date
\* constructor normalises its fields
DayOf(y, mi, d) ==
  DaysBeforeYear(y + (mi \div 12)) + DaysBeforeMonth(y + (mi \div 12), (mi % 12) + 1) + (d - 1)

\* new Date("YYYY-MM-DD"): a date-only string is midnight UTC of that day
ParseDate(date) == 24 * DayOf(date.y, date.m - 1, date.d)

\* new Date(y, mi, d): midnight of that day in the host's local time
LocalDate(y, mi, d, zone) == 24 * DayOf(y, mi, d) - zone

\* an instant: the given hour (UTC) of a day
Instant(date, hour) == ParseDate(date) + hour

\* new Date(t).getFullYear(): the year of the instant in local time
RECURSIVE YearFrom(_, _)
YearFrom(y, day) ==
  IF day < DaysBeforeYear(y + 1) THEN y ELSE YearFrom(y + 1, day)
GetFullYear(t, zone) == YearFrom(2023, (t + zone) \div 24)

\* ------------------------------------------------------------ decimal values
\* Math.round(x) on mills: the nearest unit, a half rounding up
MathRound(v) == ((v + 500) \div 1000) * 1000

\* Number(x.toFixed(2)) on mills: the nearest cent, a half rounding away
\* from zero
ToFixed2(v) == IF v < 0 THEN -(((-v + 5) \div 10) * 10) ELSE ((v + 5) \div 10) * 10

\* -------------------------------------------------------------- analytics.js
\* a Map, kept as the sequence of its entries [k, v] in insertion order
MapHas(m, key) == \E j \in DOMAIN m : m[j].k = key
MapGet(m, key) == m[CHOOSE j \in DOMAIN m : m[j].k = key].v
\* Map.set: a known key keeps its place and takes the value, a new one is appended
MapSet(m, key, val) ==
  IF MapHas(m, key)
    THEN [j \in DOMAIN m |-> IF m[j].k = key THEN [k |-> key, v |-> val] ELSE m[j]]
    ELSE Append(m, [k |-> key, v |-> val])

\* a lookup that labels each id of no item with a name of its own
ItemNameOf_PerId(its, id) ==
  IF HasItem(its, id) /\ its[ItemIndex(its, id)].name # ""
    THEN its[ItemIndex(its, id)].name
    ELSE IF id = 8 THEN "Unknown" ELSE "Unknown (other)"

\* itemMap.get(id) || 'Unknown', itemMap = new Map(items.map(i => [i.id, i.name]))
ItemNameOf(its, id) ==
  IF HasItem(its, id) /\ its[ItemIndex(its, id)].name # ""
    THEN its[ItemIndex(its, id)].name ELSE "Unknown"

\* period.split('-').map(Number) gives a year and a month: a period string
\* is the record of the numbers its parts spell, [y, m] for "YYYY-MM"; a
\* string without a month part, or with a part that spells no number, gives
\* NaN for it, and a Date built from NaN is an Invalid Date, against which
\* both d < from and d > to are false
IsYearMonth(period) == DOMAIN period = {"y", "m"}

\* the range test of buildBudgetReport: !(d < from || d > to), with
\* from = new Date(y, m-1, 1) and to = new Date(y, m, 0)
InReportRange(date, period, zone) ==
  LET d == ParseDate(date)
      from == LocalDate(period.y, period.m - 1, 1, zone)
      to == LocalDate(period.y, period.m, 0, zone)
  IN IF ~IsYearMonth(period) THEN TRUE ELSE ~(d < from \/ d > to)

\* the first loop of buildBudgetReport: actualMap
RECURSIVE ReportActualMap(_, _, _, _)
ReportActualMap(rest, period, zone, m) ==
  IF rest = << >> THEN m
  ELSE LET t == Head(rest) IN
    IF t.type # "expense" THEN ReportActualMap(Tail(rest), period, zone, m)
    ELSE IF ~InReportRange(t.date, period, zone)
      THEN ReportActualMap(Tail(rest), period, zone, m)
    ELSE ReportActualMap(Tail(rest), period, zone,
           MapSet(m, t.itemId, (IF MapHas(m, t.itemId) THEN MapGet(m, t.itemId) ELSE 0) + t.amount))

\* the second loop: one row per budget entry of the period
RECURSIVE ReportBudgetRows(_, _, _, _)
ReportBudgetRows(its, rest, period, rows) ==
  IF rest = << >> THEN rows
  ELSE LET b == Head(rest) IN
    IF b.period # period THEN ReportBudgetRows(its, Tail(rest), period, rows)
    ELSE ReportBudgetRows(its, Tail(rest), period,
           MapSet(rows, b.itemId,
                  [itemId |-> b.itemId, itemName |-> ItemNameOf(its, b.itemId),
                   budget |-> b.amount, actual |-> 0]))

\* the third loop: the actual of every entry of actualMap, on its row or a new one
RECURSIVE ReportActualRows(_, _, _)
ReportActualRows(its, rest, rows) ==
  IF rest = << >> THEN rows
  ELSE LET itemId == Head(rest).k
           actual == Head(rest).v
           row == IF MapHas(rows, itemId) THEN MapGet(rows, itemId)
                  ELSE [itemId |-> itemId, itemName |-> ItemNameOf(its, itemId),
                        budget |-> 0, actual |-> 0]
       IN ReportActualRows(its, Tail(rest), MapSet(rows, itemId, [row EXCEPT !.actual = actual]))

\* rowsMap.values() before the rounding
ReportRowsMap(ts, its, bs, period, zone) ==
  ReportActualRows(its, ReportActualMap(ts, period, zone, << >>),
                   ReportBudgetRows(its, bs, period, << >>))

\* the difference field of a row
RowDifference(r) == ToFixed2(r.budget - r.actual)

\* .map(r => ({...r, budget, actual, difference}))
ReportRound(r) ==
  [itemId |-> r.itemId, itemName |-> r.itemName,
   budget |-> ToFixed2(r.budget), actual |-> ToFixed2(r.actual),
   difference |-> RowDifference(r)]

\* a filter that keeps every row
RowKept_All(r) == TRUE

\* .filter(r => r.budget > 0 || r.actual > 0)
RowKept(r) == r.budget > 0 \/ r.actual > 0

RECURSIVE ReportRows(_)
ReportRows(m) ==
  IF m = << >> THEN << >>
  ELSE LET r == ReportRound(Head(m).v) IN
    (IF RowKept(r) THEN <<r>> ELSE << >>) \o ReportRows(Tail(m))

RECURSIVE FieldSum(_, _)
FieldSum(rows, field) ==
  IF rows = << >> THEN 0 ELSE Head(rows)[field] + FieldSum(Tail(rows), field)

\* a totals difference taken from the rounded totals instead
TotalsDifference_OfTotals(rows) ==
  ToFixed2(ToFixed2(FieldSum(rows, "budget")) - ToFixed2(FieldSum(rows, "actual")))

\* the difference field of the totals
TotalsDifference(rows) == ToFixed2(FieldSum(rows, "difference"))

\* rows.reduce(...), then each sum rounded
ReportTotals(rows) ==
  [budget |-> ToFixed2(FieldSum(rows, "budget")),
   actual |-> ToFixed2(FieldSum(rows, "actual")),
   difference |-> TotalsDifference(rows)]

\* buildBudgetReport(txs, items, budgets, period) on a host in time zone `zone`
BuildBudgetReport(ts, its, bs, period, zone) ==
  LET rows == ReportRows(ReportRowsMap(ts, its, bs, period, zone))
  IN [rows |-> rows, totals |-> ReportTotals(rows)]

\* an optional argument: << >> when left out, <<v>> when given
Omitted == << >>
Given(v) == <<v>>

MonthNames ==
  << "January", "February", "March", "April", "May", "June", "July",
     "August", "September", "October", "November", "December" >>

\* fmtMonthLabel(ym): the long month name and the year
FmtMonthLabel(ym) == <<MonthNames[ym.m], ym.y>>

\* start = from ? new Date(from) : new Date(new Date().getFullYear(), 0, 1)
SeriesStart(from, nw, zone) ==
  IF from # Omitted THEN ParseDate(from[1])
  ELSE LocalDate(GetFullYear(nw, zone), 0, 1, zone)

\* an end that, left out, is the last hour of the current year
SeriesEnd_YearEnd(to, nw, zone) ==
  IF to # Omitted THEN ParseDate(to[1])
  ELSE LocalDate(GetFullYear(nw, zone) + 1, 0, 1, zone) - 1

\* end = to ? new Date(to) : new Date()
SeriesEnd(to, nw, zone) ==
  IF to # Omitted THEN ParseDate(to[1]) ELSE nw

\* the range test of buildMonthlySeries: !(d < start || d > end)
InSeriesRange(date, from, to, nw, zone) ==
  LET d == ParseDate(date)
  IN ~(d < SeriesStart(from, nw, zone) \/ d > SeriesEnd(to, nw, zone))

\* the loop of buildMonthlySeries: the Map of month buckets
RECURSIVE SeriesLoop(_, _, _, _, _, _)
SeriesLoop(rest, from, to, nw, zone, m) ==
  IF rest = << >> THEN m
  ELSE LET t == Head(rest) IN
    IF ~InSeriesRange(t.date, from, to, nw, zone)
      THEN SeriesLoop(Tail(rest), from, to, nw, zone, m)
    ELSE LET key == MonthKey(t.date)
             obj == IF MapHas(m, key) THEN MapGet(m, key)
                    ELSE [monthKey |-> key, label |-> FmtMonthLabel(key),
                          income |-> 0, expense |-> 0]
             upd == IF t.type = "income"
                      THEN [obj EXCEPT !.income = @ + t.amount]
                      ELSE [obj EXCEPT !.expense = @ + t.amount]
         IN SeriesLoop(Tail(rest), from, to, nw, zone, MapSet(m, key, upd))

\* a.monthKey.localeCompare(b.monthKey) < 0 on "YYYY-MM" keys
KeyBefore(a, b) == a.y < b.y \/ (a.y = b.y /\ a.m < b.m)

\* .sort(...): the buckets in ascending order of their (distinct) keys
RECURSIVE SortBuckets(_)
SortBuckets(bs) ==
  IF bs = << >> THEN << >>
  ELSE LET j == CHOOSE j \in DOMAIN bs :
                  \A k \in DOMAIN bs : k = j \/ KeyBefore(bs[j].monthKey, bs[k].monthKey)
       IN <<bs[j]>> \o SortBuckets(SubSeq(bs, 1, j - 1) \o SubSeq(bs, j + 1, Len(bs)))

\* .map(p => ({...p, income: Math.round(p.income), expense: Math.round(p.expense)}))
SeriesRound(p) ==
  [p EXCEPT !.income = MathRound(p.income), !.expense = MathRound(p.expense)]

\* buildMonthlySeries(txs, from, to) at instant nw on a host in time zone `zone`
BuildMonthlySeries(ts, from, to, nw, zone) ==
  LET m == SeriesLoop(ts, from, to, nw, zone, << >>)
      sorted == SortBuckets([j \in DOMAIN m |-> m[j].v])
  IN [j \in DOMAIN sorted |-> SeriesRound(sorted[j])]

\* ------------------------------------------- analytics.js: the structure
\* the range test of buildExpenseStructure: !(d < start || d > end), with
\* start = from ? new Date(from) : new Date(new Date().getFullYear(), 0, 1)
\* and end = to ? new Date(to) : new Date()
InStructureRange(date, from, to, nw, zone) ==
  LET d == ParseDate(date)
      start == IF from # Omitted THEN ParseDate(from[1])
               ELSE LocalDate(GetFullYear(nw, zone), 0, 1, zone)
      end == IF to # Omitted THEN ParseDate(to[1]) ELSE nw
  IN ~(d < start \/ d > end)

\* the loop of buildExpenseStructure: the Map from item name to amount
RECURSIVE StructureLoop(_, _, _, _, _, _, _)
StructureLoop(rest, its, from, to, nw, zone, m) ==
  IF rest = << >> THEN m
  ELSE LET t == Head(rest) IN
    IF t.type # "expense" THEN StructureLoop(Tail(rest), its, from, to, nw, zone, m)
    ELSE IF ~InStructureRange(t.date, from, to, nw, zone)
      THEN StructureLoop(Tail(rest), its, from, to, nw, zone, m)
    ELSE LET name == ItemNameOf(its, t.itemId) IN
      StructureLoop(Tail(rest), its, from, to, nw, zone,
                    MapSet(m, name, (IF MapHas(m, name) THEN MapGet(m, name) ELSE 0) + t.amount))

\* Array.from(m.values()).reduce((s, v) => s + v, 0)
RECURSIVE ValueSum(_)
ValueSum(m) == IF m = << >> THEN 0 ELSE Head(m).v + ValueSum(Tail(m))

\* a share counted in thousandths
Share_Permille(amount, total) ==
  LET n == IF total < 0 THEN -amount ELSE amount
      d == IF total < 0 THEN -total ELSE total
  IN (2000 * n + d) \div (2 * d)

\* Math.round(amount / total * 100), total not 0: the nearest integer to the
\* exact quotient, a half rounding up
Share(amount, total) ==
  LET n == IF total < 0 THEN -amount ELSE amount
      d == IF total < 0 THEN -total ELSE total
  IN (200 * n + d) \div (2 * d)

\* buildExpenseStructure(txs, items, from, to)
BuildExpenseStructure(ts, its, from, to, nw, zone) ==
  LET m == StructureLoop(ts, its, from, to, nw, zone, << >>)
      total == ValueSum(m)
  IN IF total = 0 THEN << >>
     ELSE [j \in DOMAIN m |->
             [item |-> m[j].k, amount |-> m[j].v, share |-> Share(m[j].v, total)]]

\* ------------------------------------------ useDerived: the budget rollup
\* Math.max(0, Number(b.amount) || 0) of a stored record
ClampedAmount(amount) == Max0(NumberOrZero(amount))

\* the loop of budgetByTopLevelForMonth on the Map sums
RECURSIVE BudgetLoop(_, _, _, _)
BudgetLoop(its, rest, month, sums) ==
  IF rest = << >> THEN [kind |-> "return", val |-> sums]
  ELSE LET b == Head(rest) IN
    IF b.month # month THEN BudgetLoop(its, Tail(rest), month, sums)
    ELSE LET r == GetRootId(its, b.itemId) IN
      IF r.kind = "hang" THEN r
      ELSE BudgetLoop(its, Tail(rest), month,
             MapSet(sums, r.val,
                    (IF MapHas(sums, r.val) THEN MapGet(sums, r.val) ELSE 0)
                      + ClampedAmount(b.amount)))

\* budgetByTopLevelForMonth(month): the Map from root id to budget sum
BudgetByTopLevelForMonth(its, bs, month) == BudgetLoop(its, bs, month, << >>)

\* ------------------------------------------------------------------ inputs
LedgerDates == {Date(2024, 1, 5), Date(2024, 2, 10)}
LedgerMonths == {MonthKey(d) : d \in LedgerDates}
LedgerAmounts == {50000}

\* an imported item table: ids 1..MaxItems, each with no parent or with any
\* id of 1..MaxItems+1 as parent (its own id, and an id of no item, included)
ImportType(id) == IF id % 2 = 1 THEN "expense" ELSE "income"
ImportName(id) == IF id % 2 = 1 THEN "Food" ELSE "Pay"
ImportItems ==
  {[k \in 1..MaxItems |-> Item(k, ImportName(k), ImportType(k), p[k])] :
     p \in [1..MaxItems -> {Null} \cup 1..(MaxItems + 1)]}

\* the imported tables that are forests, one per shape: every forest can be
\* numbered so that a parent's id is smaller than its children's
ImportForests ==
  {its \in ImportItems : \A k \in DOMAIN its : its[k].parentId < its[k].id}

ImportTx ==
  [date : LedgerDates, type : {"expense"}, amount : LedgerAmounts,
   itemId : 1..(MaxItems + 1)]
ImportTxs == SeqsUpTo(ImportTx, MaxTxs)

\* the imported files: any item table with an empty ledger, and any forest
\* with any ledger
ImportData ==
  {[items |-> its, wallets |-> << >>, txs |-> << >>, budgets |-> << >>] :
     its \in ImportItems}
    \cup {[items |-> its, wallets |-> << >>, txs |-> ts, budgets |-> << >>] :
             its \in ImportForests, ts \in ImportTxs}

\* ------------------------------------------------------------------ useDB
Init ==
  /\ items = DEMO_DB.items
  /\ wallets = DEMO_DB.wallets
  /\ txs = DEMO_DB.txs
  /\ dbBudgets = DEMO_DB.budgets
  /\ budgets = << >>
  /\ tz = 0
  /\ now = Instant(Date(2024, 3, 1), 12)
  /\ intFormatters = << >> /\ currency2Formatters = << >> /\ constructed = << >>
  /\ nextUid = Len(DEMO_DB.items) + 1
  /\ ops = 0
  /\ ret = NoCall

\* upsertItem(i)
UpsertItem(its, i) ==
  IF \E k \in DOMAIN its : its[k].id = i.id
    THEN [k \in DOMAIN its |-> IF its[k].id = i.id THEN i ELSE its[k]]
    ELSE <<i>> \o its

\* d.items.filter(x => x.id !== id)
RECURSIVE DelItem(_, _)
DelItem(its, id) ==
  IF its = << >> THEN << >>
  ELSE IF Head(its).id = id THEN DelItem(Tail(its), id)
  ELSE <<Head(its)>> \o DelItem(Tail(its), id)

\* importDB(data): items with parentId ?? null, wallets and txs as given
\* (data.wallets || [] of a file without wallets is empty), budgets with
\* their amounts made non-negative numbers.  importDB
\* replaces every field of the db, so the db it produces does not depend on
\* the db it replaces: Next takes it from the demo db only (after a load or
\* a resetDemo), which reaches the same dbs.
ImportDB(data) ==
  /\ items' = [k \in DOMAIN data.items |->
                 Item(data.items[k].id, data.items[k].name, data.items[k].type,
                      data.items[k].parentId)]
  /\ wallets' = data.wallets
  /\ txs' = data.txs
  /\ dbBudgets' = [k \in DOMAIN data.budgets |->
                     Budget(data.budgets[k].itemId, data.budgets[k].month,
                            JNum(Max0(NumberOrZero(data.budgets[k].amount))))]
  /\ ret' = NoCall
  /\ UNCHANGED <<host, nextUid, ops>>

\* resetDemo()
ResetDemo ==
  /\ items' = DEMO_DB.items
  /\ wallets' = DEMO_DB.wallets
  /\ txs' = DEMO_DB.txs
  /\ dbBudgets' = DEMO_DB.budgets
  /\ ret' = NoCall
  /\ UNCHANGED <<host, nextUid, ops>>

\* a call of getRootId(itemId) on the current db
CallGetRootId(itemId) ==
  /\ ret' = [op |-> "getRootId", arg |-> itemId, out |-> GetRootId(items, itemId)]
  /\ UNCHANGED <<items, wallets, txs, dbBudgets, host, nextUid, ops>>

\* a call of actualByTopLevelForMonth(month) on the current db
CallActualByTopLevelForMonth(month) ==
  /\ ret' = [op |-> "actualByTopLevelForMonth", arg |-> month,
             out |-> ActualByTopLevelForMonth(items, txs, month)]
  /\ UNCHANGED <<items, wallets, txs, dbBudgets, host, nextUid, ops>>

IsDemo ==
  /\ items = DEMO_DB.items /\ wallets = DEMO_DB.wallets
  /\ txs = DEMO_DB.txs /\ dbBudgets = DEMO_DB.budgets

Next ==
  \/ IsDemo /\ \E data \in ImportData : ImportDB(data)
  \/ ResetDemo
  \/ \E id \in 1..(MaxItems + 1) : CallGetRootId(id)
  \/ \E month \in LedgerMonths : CallActualByTopLevelForMonth(month)

Spec == Init /\ [][Next]_vars

\* ---------------------------------------------------------------- ItemForm
\* candidates: the items of the form's type, the edited item left out
Candidates(its, type, self) ==
  {its[k].id : k \in {j \in DOMAIN its : its[j].type = type /\ its[j].id # self}}

\* the form's fields when it opens on item number k of the table (0: "new")
FormOpen(its, k) ==
  IF k = 0 THEN [name |-> "New", type |-> "expense", parentId |-> Null]
  ELSE [name |-> its[k].name, type |-> its[k].type, parentId |-> its[k].parentId]

\* the fields at submit.  The parent select offers (none) and the candidates
\* of the type the type select shows, and setting the type select leaves the
\* parentId state as it is: the fields are the ones the form opened with, or
\* a type with a parent that was picked, or kept from the opening, under
\* either type.
FormPicks(its, k, self) ==
  {FormOpen(its, k)}
    \cup UNION {{[name |-> FormOpen(its, k).name, type |-> t, parentId |-> p] :
                   p \in {Null, FormOpen(its, k).parentId}
                           \cup UNION {Candidates(its, u, self) : u \in Types}} :
                t \in Types}

\* submit of the form opened on item number k, with fields f, then
\* onSave = upsertItem (the name field is left as the form opened with it:
\* the name of the edited item, a fixed non-empty name for a new one)
ItemFormSave(k, f) ==
  /\ ops < MaxItemOps
  /\ ops' = ops + 1
  /\ k = 0 => nextUid <= Len(DEMO_DB.items) + MaxNewItems
  /\ LET id == IF k = 0 THEN nextUid ELSE items[k].id
     IN /\ items' = UpsertItem(items, Item(id, f.name, f.type, f.parentId))
        /\ nextUid' = IF k = 0 THEN nextUid + 1 ELSE nextUid
  /\ ret' = NoCall
  /\ UNCHANGED <<wallets, txs, dbBudgets, host>>

\* a deletion that does not look for sub-items
ItemsPanelDelete_Unchecked(id) ==
  /\ ops < MaxItemOps
  /\ ops' = ops + 1
  /\ items' = DelItem(items, id)
  /\ ret' = NoCall
  /\ UNCHANGED <<wallets, txs, dbBudgets, host, nextUid>>

\* ItemsPanel.onDelete(id): refused when the item has sub-items
ItemsPanelDelete(id) ==
  /\ ops < MaxItemOps
  /\ ops' = ops + 1
  /\ ~\E k \in DOMAIN items : items[k].parentId = id
  /\ items' = DelItem(items, id)
  /\ ret' = NoCall
  /\ UNCHANGED <<wallets, txs, dbBudgets, host, nextUid>>

SelfOf(k) == IF k = 0 THEN Null ELSE items[k].id

\* the items panel, the user choosing the parent under the type they submit
NextPick ==
  \/ \E k \in {0} \cup DOMAIN items :
       \E f \in FormPicks(items, k, SelfOf(k)) : ItemFormSave(k, f)
  \/ \E id \in Ids(items) : ItemsPanelDelete(id)

SpecPick == Init /\ [][NextPick]_vars

\* ----------------------------------------------------- Dashboard: the report
\* a call of buildBudgetReport(txs, items, budgets, period), as Dashboard
\* makes it for the month it shows
CallBuildBudgetReport(period) ==
  /\ ret' = [op |-> "buildBudgetReport", arg |-> period,
             out |-> BuildBudgetReport(txs, items, budgets, period, tz)]
  /\ UNCHANGED <<items, wallets, txs, dbBudgets, host, nextUid, ops>>

\* the ledgers and budgets of the report's arithmetic: expenses of one month
\* against two demo categories and one id of no item, amounts of a few mills
\* and of whole units
ReportPeriods == {Month(2024, 1), Month(2024, 2)}
ReportTx ==
  [date : {Date(2024, 1, 5)}, type : {"expense"}, amount : {4, 6, 10000},
   itemId : {3, 4, 9}]
ReportBudget == [itemId : {3, 4}, period : {Month(2024, 1)}, amount : {6, 10004}]

\* upsertBudget keeps one record per (itemId, period)
DistinctKeys(bs) ==
  \A j, k \in DOMAIN bs :
    (bs[j].itemId = bs[k].itemId /\ bs[j].period = bs[k].period) => j = k
ReportBudgets == {bs \in SeqsUpTo(ReportBudget, MaxBudgets) : DistinctKeys(bs)}

InitReport ==
  /\ items = DEMO_DB.items
  /\ wallets = DEMO_DB.wallets
  /\ txs \in SeqsUpTo(ReportTx, MaxReportTxs)
  /\ dbBudgets = DEMO_DB.budgets
  /\ budgets \in ReportBudgets
  /\ tz = 0
  /\ now = Instant(Date(2024, 3, 1), 12)
  /\ intFormatters = << >> /\ currency2Formatters = << >> /\ constructed = << >>
  /\ nextUid = Len(DEMO_DB.items) + 1
  /\ ops = 0
  /\ ret = NoCall

NextReport == \E period \in ReportPeriods : CallBuildBudgetReport(period)

SpecReport == InitReport /\ [][NextReport]_vars

\* the ledgers of the report's month boundaries: the days around the ends of
\* a 29-day, a 28-day, a 30-day and a 31-day month, on hosts west of, at and
\* east of UTC (tz is the host's offset from UTC in hours)
Zones == {-5, 0, 3}
DatePeriods == {Month(2024, 2), Month(2023, 2), Month(2024, 4), Month(2024, 12)}
BoundaryDates ==
  UNION {{Date(p.y, p.m, 1), Date(p.y, p.m, DaysInMonth(p.y, p.m)),
          Date(p.y, p.m - 1, DaysInMonth(p.y, p.m - 1)),
          IF p.m = 12 THEN Date(p.y + 1, 1, 1) ELSE Date(p.y, p.m + 1, 1)} :
           p \in DatePeriods}
DateTx == [date : BoundaryDates, type : Types, amount : {50000}, itemId : {3}]

InitReportDates ==
  /\ items = DEMO_DB.items
  /\ wallets = DEMO_DB.wallets
  /\ txs \in SeqsUpTo(DateTx, MaxDateTxs)
  /\ dbBudgets = DEMO_DB.budgets
  /\ budgets = << >>
  /\ tz \in Zones
  /\ now = Instant(Date(2024, 3, 1), 12)
  /\ intFormatters = << >> /\ currency2Formatters = << >> /\ constructed = << >>
  /\ nextUid = Len(DEMO_DB.items) + 1
  /\ ops = 0
  /\ ret = NoCall

NextReportDates == \E period \in DatePeriods : CallBuildBudgetReport(period)

SpecReportDates == InitReportDates /\ [][NextReportDates]_vars

\* the period strings that are not of the shape "YYYY-MM": "2024", with no
\* month part, and "garbage", which spells no number
YearOnly(y) == [y |-> y]
NoNumber(str) == [s |-> str]
MalformedPeriods == {YearOnly(2024), NoNumber("garbage")}

NextReportPeriod ==
  \E period \in MalformedPeriods \cup {Month(2024, 2)} : CallBuildBudgetReport(period)

SpecReportPeriod == InitReportDates /\ [][NextReportPeriod]_vars

\* ------------------------------------------------------- the budget stores
\* an upsert that appends a record whether or not the key is held
DbUpsertBudget_Append(bs, itemId, month, amount) ==
  Append(bs, Budget(itemId, month, JNum(Max0(NumberOrZero(amount)))))

\* useDB.upsertBudget({itemId, month, amount}) on the list bs: the first
\* record with the key takes the amount, or a new record is appended
DbUpsertBudget(bs, itemId, month, amount) ==
  LET a == Max0(NumberOrZero(amount))
      hits == {k \in DOMAIN bs : bs[k].itemId = itemId /\ bs[k].month = month}
      idx == CHOOSE k \in hits : \A j \in hits : k <= j
  IN IF hits # {}
       THEN [bs EXCEPT ![idx] = [bs[idx] EXCEPT !.amount = JNum(a)]]
       ELSE Append(bs, Budget(itemId, month, JNum(a)))

\* useDB.delBudget(itemId, month) on the list bs
DbDelBudget(bs, itemId, month) ==
  LET Kept(b) == ~(b.itemId = itemId /\ b.month = month)
  IN SelectSeq(bs, Kept)

\* useBudgets.upsertBudget(rec) on the list bs: the records with the key of
\* rec are dropped and rec is appended.  A record's id (rec.id || uid()) is
\* unique to it and is left out of the model's records.
BudgetsUpsert(bs, rec) ==
  LET Kept(b) == ~(b.itemId = rec.itemId /\ b.period = rec.period)
  IN Append(SelectSeq(bs, Kept), rec)

\* parseFloat(text) of the text of an amount input: the number the text
\* spells, NaN for a text that spells none
NaNValue == [t |-> "NaN"]
FloatTexts == [str \in {"-5", "0.006", "500", "600"} |->
                 CASE str = "-5" -> -5000 [] str = "0.006" -> 6
                   [] str = "500" -> 500000 [] str = "600" -> 600000]
ParseFloat(text) ==
  IF text \in DOMAIN FloatTexts THEN JNum(FloatTexts[text]) ELSE NaNValue
IsNaN(v) == v.t = "NaN"

\* a store action that upserts: what it was called with and the list before
Upserted(store, itemId, month, amount, before) ==
  [op |-> "upsertBudget", store |-> store, itemId |-> itemId, month |-> month,
   amount |-> amount, before |-> before]

\* useDB.upsertBudget({itemId, month, amount})
UpsertBudget(itemId, month, amount) ==
  /\ dbBudgets' = DbUpsertBudget(dbBudgets, itemId, month, amount)
  /\ ret' = Upserted("useDB", itemId, month, amount, dbBudgets)
  /\ UNCHANGED <<items, wallets, txs, host, nextUid, ops>>

\* useDB.delBudget(itemId, month)
DelBudget(itemId, month) ==
  /\ dbBudgets' = DbDelBudget(dbBudgets, itemId, month)
  /\ ret' = NoCall
  /\ UNCHANGED <<items, wallets, txs, host, nextUid, ops>>

\* the item ids of the rows of the budget table for the month it shows
BudgetRowIds(month) ==
  LET rows == BuildBudgetReport(txs, items, budgets, month, tz).rows
  IN {rows[r].itemId : r \in DOMAIN rows}

\* unusedItems: the expense items with no row in the budget table
UnusedItems(month) ==
  {items[k].id : k \in {j \in DOMAIN items : items[j].type = "expense"}}
    \ BudgetRowIds(month)

\* Dashboard.addBudget with newItem picked in the select and newAmount typed
AddBudget(newItem, month, newAmount) ==
  LET amount == ParseFloat(newAmount) IN
  /\ newItem \in UnusedItems(month)
  /\ ~IsNaN(amount)
  /\ budgets' = BudgetsUpsert(budgets, [itemId |-> newItem, period |-> month, amount |-> amount.n])
  /\ ret' = Upserted("useBudgets", newItem, month, amount, budgets)
  /\ UNCHANGED <<items, wallets, txs, dbBudgets, tz, now, formatters, nextUid, ops>>

\* Dashboard.onBudgetChange(itemId, val) from the budget input of a row
OnBudgetChange(itemId, month, val) ==
  LET amount == ParseFloat(val) IN
  /\ itemId \in BudgetRowIds(month)
  /\ ~IsNaN(amount)
  /\ ~(amount.n < 0)
  /\ budgets' = BudgetsUpsert(budgets, [itemId |-> itemId, period |-> month, amount |-> amount.n])
  /\ ret' = Upserted("useBudgets", itemId, month, amount, budgets)
  /\ UNCHANGED <<items, wallets, txs, dbBudgets, tz, now, formatters, nextUid, ops>>

\* the Del button of a row: deleteBudget(budgetIdMap.get(r.itemId)) drops the
\* record the id names, the one of the month with the row's itemId, and
\* nothing when the row has no budget record
DeleteBudget(itemId, month) ==
  LET Kept(b) == ~(b.itemId = itemId /\ b.period = month) IN
  /\ itemId \in BudgetRowIds(month)
  /\ budgets' = SelectSeq(budgets, Kept)
  /\ ret' = NoCall
  /\ UNCHANGED <<items, wallets, txs, dbBudgets, tz, now, formatters, nextUid, ops>>

\* the inputs of the budget stores, on the demo items and ledger
BudgetLedger == DEMO_DB.txs
BudgetItems == {3, 4}
BudgetMonths == {Month(2024, 1)}
RawAmounts == {JNum(-5000), JNum(500000), JNum(600000), JStr("abc")}
AmountTexts == {"", "-5", "500"}
RawBudget == [itemId : BudgetItems, month : BudgetMonths, amount : RawAmounts]
BudgetImportData ==
  {[items |-> DEMO_DB.items, wallets |-> DEMO_DB.wallets, txs |-> BudgetLedger,
    budgets |-> bs] :
     bs \in SeqsUpTo(RawBudget, MaxImportBudgets)}

InitBudgets ==
  /\ items = DEMO_DB.items
  /\ wallets = DEMO_DB.wallets
  /\ txs = BudgetLedger
  /\ dbBudgets = DEMO_DB.budgets
  /\ budgets = << >>
  /\ tz = 0
  /\ now = Instant(Date(2024, 3, 1), 12)
  /\ intFormatters = << >> /\ currency2Formatters = << >> /\ constructed = << >>
  /\ nextUid = Len(DEMO_DB.items) + 1
  /\ ops = 0
  /\ ret = NoCall

\* importDB replaces db.budgets whole and leaves no call behind, so the
\* state it leaves does not depend on the list it replaces: it is taken from
\* the empty list with no call pending only (as after a delBudget), which
\* reaches the same states.
NextBudgets ==
  \/ \E itemId \in BudgetItems, month \in BudgetMonths, amount \in RawAmounts :
       UpsertBudget(itemId, month, amount)
  \/ \E itemId \in BudgetItems, month \in BudgetMonths : DelBudget(itemId, month)
  \/ dbBudgets = << >> /\ ret = NoCall /\ \E data \in BudgetImportData : ImportDB(data)
  \/ ResetDemo
  \/ \E itemId \in BudgetItems, month \in BudgetMonths, text \in AmountTexts :
       AddBudget(itemId, month, text)
  \/ \E itemId \in BudgetItems, month \in BudgetMonths, text \in AmountTexts :
       OnBudgetChange(itemId, month, text)
  \/ \E itemId \in BudgetItems, month \in BudgetMonths : DeleteBudget(itemId, month)

SpecBudgets == InitBudgets /\ [][NextBudgets]_vars

\* ------------------------------------------- a db read from localStorage
\* a call of budgetByTopLevelForMonth(month) on the current db
CallBudgetByTopLevelForMonth(month) ==
  /\ ret' = [op |-> "budgetByTopLevelForMonth", arg |-> month,
             out |-> BudgetByTopLevelForMonth(items, dbBudgets, month)]
  /\ UNCHANGED <<items, wallets, txs, dbBudgets, host, nextUid, ops>>

\* loadDB returns the stored db of the current version as it is: a table
\* with a sub-category, and budget records with any JSON amount, for items of
\* the table and for an id of no item
LoadedItems ==
  << Item(1, "Food", "expense", Null), Item(2, "Groceries", "expense", 1),
     Item(3, "Pay", "income", Null) >>
StoredMonths == {Month(2024, 1), Month(2024, 2)}
StoredBudget ==
  [itemId : {1, 2, 9}, month : StoredMonths,
   amount : {JNum(-5000), JNum(500000), JStr("abc")}]

InitLoaded ==
  /\ items = LoadedItems
  /\ wallets = DEMO_DB.wallets
  /\ txs = << >>
  /\ dbBudgets \in SeqsUpTo(StoredBudget, MaxStoredBudgets)
  /\ budgets = << >>
  /\ tz = 0
  /\ now = Instant(Date(2024, 3, 1), 12)
  /\ intFormatters = << >> /\ currency2Formatters = << >> /\ constructed = << >>
  /\ nextUid = Len(LoadedItems) + 1
  /\ ops = 0
  /\ ret = NoCall

NextLoaded == \E month \in StoredMonths : CallBudgetByTopLevelForMonth(month)

SpecLoaded == InitLoaded /\ [][NextLoaded]_vars

\* -------------------------------------------------- Dashboard: the structure
\* a call of buildExpenseStructure(txs, items, from, to); Dashboard calls it
\* with neither from nor to
CallBuildExpenseStructure(from, to) ==
  /\ ret' = [op |-> "buildExpenseStructure", arg |-> [from |-> from, to |-> to],
             out |-> BuildExpenseStructure(txs, items, from, to, now, tz)]
  /\ UNCHANGED <<items, wallets, txs, dbBudgets, host, nextUid, ops>>

\* ledgers of this year and of last year's end, with amounts of 0, 1 and 2
\* units, posted against Groceries and against an id of no item
StructureTx ==
  [date : {Date(2023, 12, 31), Date(2024, 1, 5)}, type : Types,
   amount : {0, 1000, 2000}, itemId : {3, 9}]

InitStructure ==
  /\ items = DEMO_DB.items
  /\ wallets = DEMO_DB.wallets
  /\ txs \in SeqsUpTo(StructureTx, MaxStructureTxs)
  /\ dbBudgets = DEMO_DB.budgets
  /\ budgets = << >>
  /\ tz = 0
  /\ now = Instant(Date(2024, 3, 1), 12)
  /\ intFormatters = << >> /\ currency2Formatters = << >> /\ constructed = << >>
  /\ nextUid = Len(DEMO_DB.items) + 1
  /\ ops = 0
  /\ ret = NoCall

NextStructure ==
  \E from \in {Omitted, Given(Date(2023, 12, 31))}, to \in {Omitted, Given(Date(2024, 1, 5))} :
    CallBuildExpenseStructure(from, to)

SpecStructure == InitStructure /\ [][NextStructure]_vars

\* ------------------------------------------- Dashboard: rows by item name
\* the demo items after an item form save of a second item named Groceries
GroupItems == <<Item(6, "Groceries", "expense", 4)>> \o DEMO_DB.items

\* ledgers of this year and of last year's end posted against both items
\* named Groceries and against two ids of no item
GroupTx ==
  [date : {Date(2023, 12, 31), Date(2024, 1, 5)}, type : Types,
   amount : {1000}, itemId : {3, 6, 8, 9}]

InitGroups ==
  /\ items = GroupItems
  /\ wallets = DEMO_DB.wallets
  /\ txs \in SeqsUpTo(GroupTx, MaxGroupTxs)
  /\ dbBudgets = DEMO_DB.budgets
  /\ budgets = << >>
  /\ tz = 0
  /\ now = Instant(Date(2024, 3, 1), 12)
  /\ intFormatters = << >> /\ currency2Formatters = << >> /\ constructed = << >>
  /\ nextUid = Len(GroupItems) + 1
  /\ ops = 0
  /\ ret = NoCall

NextGroups ==
  \E from \in {Omitted, Given(Date(2023, 12, 31))} :
    CallBuildExpenseStructure(from, Omitted)

SpecGroups == InitGroups /\ [][NextGroups]_vars

\* ----------------------------------------------------- Dashboard: the series
\* a call of buildMonthlySeries(txs, from, to); Dashboard calls it with
\* neither from nor to
CallBuildMonthlySeries(from, to) ==
  /\ ret' = [op |-> "buildMonthlySeries", arg |-> [from |-> from, to |-> to],
             out |-> BuildMonthlySeries(txs, from, to, now, tz)]
  /\ UNCHANGED <<items, wallets, txs, dbBudgets, host, nextUid, ops>>

Tx(date, type, amount, itemId) ==
  [date |-> date, type |-> type, amount |-> amount, itemId |-> itemId]

\* expense 120 on 2024-01-05, income 1000 on 2024-01-20, expense 80 on 2024-02-10
ExampleLedger ==
  << Tx(Date(2024, 1, 5), "expense", 120000, 3),
     Tx(Date(2024, 1, 20), "income", 1000000, 1),
     Tx(Date(2024, 2, 10), "expense", 80000, 3) >>

SeriesTx ==
  [date : {Date(2024, 1, 1), Date(2024, 2, 10)}, type : Types,
   amount : {400, 120000}, itemId : {3}]
SeriesLedgers == {ExampleLedger} \cup SeqsUpTo(SeriesTx, MaxSeriesTxs)

\* the instants at which the series is asked for
SeriesNows ==
  { Instant(Date(2024, 1, 1), 2), Instant(Date(2024, 1, 25), 12),
    Instant(Date(2024, 2, 10), 0), Instant(Date(2024, 3, 1), 12),
    Instant(Date(2024, 12, 31), 22), Instant(Date(2025, 6, 1), 12) }

SeriesRangeArgs == {Omitted, Given(Date(2024, 1, 1))}

InitSeries ==
  /\ items = DEMO_DB.items
  /\ wallets = DEMO_DB.wallets
  /\ txs \in SeriesLedgers
  /\ dbBudgets = DEMO_DB.budgets
  /\ budgets = << >>
  /\ tz \in Zones
  /\ now \in SeriesNows
  /\ intFormatters = << >> /\ currency2Formatters = << >> /\ constructed = << >>
  /\ nextUid = Len(DEMO_DB.items) + 1
  /\ ops = 0
  /\ ret = NoCall

NextSeries ==
  \E from \in SeriesRangeArgs, to \in SeriesRangeArgs : CallBuildMonthlySeries(from, to)

SpecSeries == InitSeries /\ [][NextSeries]_vars

\* ------------------------------------------- Dashboard: calls as time passes
\* the host's clock moves on between two calls: new Date() returns a later
\* instant; the db and the last call's outcome stay as they are
Tick ==
  /\ \E t \in SeriesNows : t > now /\ now' = t
  /\ UNCHANGED <<items, wallets, txs, dbBudgets, budgets, tz, formatters, nextUid, ops, ret>>

InitClock ==
  /\ items = DEMO_DB.items
  /\ wallets = DEMO_DB.wallets
  /\ txs = ExampleLedger
  /\ dbBudgets = DEMO_DB.budgets
  /\ budgets = << >>
  /\ tz \in Zones
  /\ now \in SeriesNows
  /\ intFormatters = << >> /\ currency2Formatters = << >> /\ constructed = << >>
  /\ nextUid = Len(DEMO_DB.items) + 1
  /\ ops = 0
  /\ ret = NoCall

\* the three aggregation functions called on one snapshot while the clock runs
NextClock ==
  \/ Tick
  \/ \E from \in SeriesRangeArgs, to \in SeriesRangeArgs : CallBuildMonthlySeries(from, to)
  \/ \E from \in SeriesRangeArgs, to \in SeriesRangeArgs : CallBuildExpenseStructure(from, to)
  \/ \E period \in ReportPeriods : CallBuildBudgetReport(period)

SpecClock == InitClock /\ [][NextClock]_vars

\* ------------------------------------------------------ TransactionsPanel
\* isLeaf(itemId): childrenMap has no children under the id
IsLeaf(its, itemId) == ~\E k \in DOMAIN its : its[k].parentId = itemId

\* filteredItems of TransactionForm: items.filter(i => i.type === type && isLeaf(i.id))
FilteredItems(its, type) ==
  {its[k].id : k \in {j \in DOMAIN its : its[j].type = type /\ IsLeaf(its, its[j].id)}}

\* the transaction TransactionForm submits for the fields f, opened on
\* transaction number k of the ledger (0: "new")
SubmittedTx(k, f) ==
  [id |-> IF k = 0 THEN nextUid ELSE txs[k].id, date |-> f.date, type |-> f.type,
   amount |-> Abs(ParseFloat(f.amount).n), itemId |-> f.itemId,
   walletId |-> f.walletId, comment |-> ""]

\* submit of TransactionForm with the fields f, then TransactionsPanel.onSave:
\* updTx for an edited transaction, addTx for a new one.  The item select
\* offers filteredItems and the effect clears an itemId that is not among
\* them, the wallet select offers the stored wallets (the walletId of an
\* edited transaction stays until another is picked), and submit refuses an
\* amount that parses to NaN or 0 and a missing item or wallet.
TransactionFormSave(k, f) ==
  /\ ops < MaxOps
  /\ ops' = ops + 1
  /\ f.itemId \in FilteredItems(items, f.type)
  /\ \/ \E w \in DOMAIN wallets : wallets[w].id = f.walletId
     \/ k # 0 /\ txs[k].walletId = f.walletId
  /\ f.walletId # Null
  /\ ~IsNaN(ParseFloat(f.amount)) /\ ParseFloat(f.amount).n # 0
  /\ txs' = IF k = 0 THEN <<SubmittedTx(k, f)>> \o txs
            ELSE [j \in DOMAIN txs |->
                    IF txs[j].id = txs[k].id THEN SubmittedTx(k, f) ELSE txs[j]]
  /\ nextUid' = IF k = 0 THEN nextUid + 1 ELSE nextUid
  /\ ret' = NoCall
  /\ UNCHANGED <<items, wallets, dbBudgets, host>>

\* TransactionsPanel.onDelete(id), confirmed: delTx(id)
TransactionsPanelDelete(id) ==
  /\ ops < MaxOps
  /\ ops' = ops + 1
  /\ LET Kept(t) == t.id # id IN txs' = SelectSeq(txs, Kept)
  /\ ret' = NoCall
  /\ UNCHANGED <<items, wallets, dbBudgets, host, nextUid>>

\* b.date.localeCompare(a.date) < 0 for date strings "YYYY-MM-DD": b is the
\* earlier date
Earlier(b, a) ==
  \/ b.y < a.y
  \/ b.y = a.y /\ b.m < a.m
  \/ b.y = a.y /\ b.m = a.m /\ b.d < a.d

\* a sort that puts an element before the elements dated as it is
RECURSIVE SortDesc_Unstable(_)
SortDesc_Unstable(ts) ==
  IF ts = << >> THEN << >>
  ELSE LET sorted == SortDesc_Unstable(SubSeq(ts, 1, Len(ts) - 1))
           t == ts[Len(ts)]
           n == Cardinality({j \in DOMAIN sorted : Earlier(t.date, sorted[j].date)})
       IN SubSeq(sorted, 1, n) \o <<t>> \o SubSeq(sorted, n + 1, Len(sorted))

\* ts.sort((a, b) => b.date.localeCompare(a.date)): Array.prototype.sort is
\* stable, so it is the insertion of each element, in turn, behind the
\* elements that are not dated earlier than it
RECURSIVE SortDesc(_)
SortDesc(ts) ==
  IF ts = << >> THEN << >>
  ELSE LET sorted == SortDesc(SubSeq(ts, 1, Len(ts) - 1))
           t == ts[Len(ts)]
           n == Cardinality({j \in DOMAIN sorted : ~Earlier(sorted[j].date, t.date)})
       IN SubSeq(sorted, 1, n) \o <<t>> \o SubSeq(sorted, n + 1, Len(sorted))

\* the search box: trim().toLowerCase() of what is typed, and toLowerCase()
\* of the names the db holds
ToLowerCase ==
  [str \in {"", "Income", "cash", "Salary", "Freelance", "Groceries", "Restaurants",
            "Transport", "Cash", "Tinkoff debit"} |->
     CASE str = "Income" -> "income" [] str = "Salary" -> "salary"
       [] str = "Freelance" -> "freelance" [] str = "Groceries" -> "groceries"
       [] str = "Restaurants" -> "restaurants" [] str = "Transport" -> "transport"
       [] str = "Cash" -> "cash" [] str = "Tinkoff debit" -> "tinkoff debit"
       [] OTHER -> str]
SearchTexts == {"", "Income", "cash"}

\* text.includes(q) for the queries of SearchTexts, which are whole words:
\* none of them is a proper part of a type, a name or a comment of the model,
\* and none is part of a date or of a number
Includes(text, q) == text = q

\* the filter of filteredTxs for the query q
Matches(its, ws, t, q) ==
  LET item == IF HasItem(its, t.itemId) THEN its[ItemIndex(its, t.itemId)].name ELSE ""
      wallet == IF \E k \in DOMAIN ws : ws[k].id = t.walletId
                  THEN ws[CHOOSE k \in DOMAIN ws : ws[k].id = t.walletId].name ELSE ""
  IN \/ Includes(t.type, q)
     \/ Includes(ToLowerCase[item], q)
     \/ Includes(ToLowerCase[wallet], q)
     \/ Includes(ToLowerCase[t.comment], q)

\* filteredTxs for what the search box holds
FilteredTxs(its, ws, ts, search) ==
  LET q == ToLowerCase[search]
      Hit(t) == Matches(its, ws, t, q)
  IN IF q = "" THEN SortDesc(ts) ELSE SortDesc(SelectSeq(ts, Hit))

\* the transactions tab renders filteredTxs
CallFilteredTxs(search) ==
  /\ ret' = [op |-> "filteredTxs", arg |-> search,
             out |-> FilteredTxs(items, wallets, txs, search)]
  /\ UNCHANGED <<items, wallets, txs, dbBudgets, host, nextUid, ops>>

\* what the user submits in the transaction form: one of two dates, an
\* expense on Groceries or an income on Salary, paid from the first wallet
TxDates == {Date(2024, 1, 5), Date(2024, 2, 10)}
TxFormPicks ==
  [date : TxDates, type : {"expense"}, amount : {"500"}, itemId : {3}, walletId : {1}]
    \cup [date : TxDates, type : {"income"}, amount : {"-5", ""}, itemId : {1}, walletId : {1}]

NextTxPanel ==
  \/ \E k \in {0} \cup DOMAIN txs : \E f \in TxFormPicks : TransactionFormSave(k, f)
  \/ \E k \in DOMAIN txs : TransactionsPanelDelete(txs[k].id)
  \/ \E search \in SearchTexts : CallFilteredTxs(search)

SpecTxPanel == Init /\ [][NextTxPanel]_vars

\* the transactions panel and the items panel used in turn
NextPosting ==
  \/ \E k \in {0} \cup DOMAIN txs : \E f \in TxFormPicks : TransactionFormSave(k, f)
  \/ \E k \in {0} \cup DOMAIN items :
       \E f \in FormPicks(items, k, SelfOf(k)) : ItemFormSave(k, f)
  \/ \E id \in Ids(items) : ItemsPanelDelete(id)

SpecPosting == Init /\ [][NextPosting]_vars

\* ------------------------------------------------------------ WalletsPanel
\* submit of WalletForm opened on wallet number k (0: "new") with the text
\* `initial` in the balance field, then onSave = upsertWallet; the name and
\* the currency are left as the form opened with them
WalletFormSave(k, initial) ==
  LET init == IF IsNaN(ParseFloat(initial)) THEN 0 ELSE ParseFloat(initial).n
      w == [id |-> IF k = 0 THEN nextUid ELSE wallets[k].id,
            name |-> IF k = 0 THEN "New" ELSE wallets[k].name,
            currency |-> IF k = 0 THEN "RUB" ELSE wallets[k].currency,
            initialBalance |-> init]
  IN /\ ops < MaxOps
     /\ ops' = ops + 1
     /\ wallets' = IF k = 0 THEN <<w>> \o wallets
                   ELSE [j \in DOMAIN wallets |->
                           IF wallets[j].id = w.id THEN w ELSE wallets[j]]
     /\ nextUid' = IF k = 0 THEN nextUid + 1 ELSE nextUid
     /\ ret' = NoCall
     /\ UNCHANGED <<items, txs, dbBudgets, host>>

\* WalletsPanel.onDelete(id), confirmed: delWallet(id)
WalletsPanelDelete(id) ==
  /\ ops < MaxOps
  /\ ops' = ops + 1
  /\ LET Kept(w) == w.id # id IN wallets' = SelectSeq(wallets, Kept)
  /\ ret' = NoCall
  /\ UNCHANGED <<items, txs, dbBudgets, host, nextUid>>

\* walletBalances: the Map from wallet id to initialBalance || 0, then the
\* loop over db.txs, which skips a transaction whose walletId has no entry
RECURSIVE WalletBalances(_, _)
WalletBalances(ws, ts) ==
  IF ts # << >> THEN
    LET m == WalletBalances(ws, SubSeq(ts, 1, Len(ts) - 1))
        t == ts[Len(ts)]
    IN IF ~MapHas(m, t.walletId) THEN m
       ELSE MapSet(m, t.walletId,
                   MapGet(m, t.walletId) + (IF t.type = "income" THEN t.amount ELSE -t.amount))
  ELSE IF ws = << >> THEN << >>
  ELSE MapSet(WalletBalances(SubSeq(ws, 1, Len(ws) - 1), << >>),
              ws[Len(ws)].id, ws[Len(ws)].initialBalance)

\* totals: income and expense over db.txs, and totalBalance, the sum over
\* db.wallets of walletBalances.get(w.id) || 0
RECURSIVE TotalBalance(_, _)
TotalBalance(ws, m) ==
  IF ws = << >> THEN 0
  ELSE (IF MapHas(m, Head(ws).id) THEN MapGet(m, Head(ws).id) ELSE 0)
         + TotalBalance(Tail(ws), m)
Totals(ws, ts) ==
  LET IsIncome(t) == t.type = "income"
      IsExpense(t) == t.type # "income"
      inc == ValueSum([j \in DOMAIN SelectSeq(ts, IsIncome) |->
                         [v |-> SelectSeq(ts, IsIncome)[j].amount]])
      exp == ValueSum([j \in DOMAIN SelectSeq(ts, IsExpense) |->
                         [v |-> SelectSeq(ts, IsExpense)[j].amount]])
  IN [income |-> inc, expense |-> exp, net |-> inc - exp,
      totalBalance |-> TotalBalance(ws, WalletBalances(ws, ts))]

\* the transactions panel and the wallets panel used in turn
NextWallets ==
  \/ \E k \in {0} \cup DOMAIN txs : \E f \in TxFormPicks : TransactionFormSave(k, f)
  \/ \E k \in DOMAIN txs : TransactionsPanelDelete(txs[k].id)
  \/ \E k \in {0} \cup DOMAIN wallets : \E initial \in {"", "500"} : WalletFormSave(k, initial)
  \/ \E k \in DOMAIN wallets : WalletsPanelDelete(wallets[k].id)

SpecWallets == Init /\ [][NextWallets]_vars

\* ---------------------------------------------------------------- format.js
\* the currency argument of a formatter call: "" is the falsy argument
\* (left out, undefined or ""); new Intl.NumberFormat throws a RangeError
\* for a currency that is not a well-formed code of three letters
CurrencyArgs == {"", "RUB", "USD", "none"}
IsWellFormedCurrencyCode(currency) == currency \in {"RUB", "USD"}

\* the formatter new Intl.NumberFormat(undefined, options) constructs
NumberFormat(style, currency, minDigits, maxDigits) ==
  [style |-> style, currency |-> currency,
   minimumFractionDigits |-> minDigits, maximumFractionDigits |-> maxDigits]

\* the outcome of a formatter call: the text fmt.format(value) gives, kept as
\* the formatter and the value at the formatter's digits, or the RangeError
Formatted(fmt, value) == [kind |-> "return", fmt |-> fmt, value |-> value]
RangeError == [kind |-> "throw"]

\* the record of a construction: the variant, the key it is cached under, the
\* formatter, and the number of the call that constructed it
Construction(variant, key, fmt, n) == [variant |-> variant, key |-> key, fmt |-> fmt, n |-> n]

\* a fmtInt that constructs its formatter on every call with a new key and
\* does not keep it
FmtInt_NoCache(n, currency) ==
  LET key == IF currency # "" THEN currency ELSE "none"
      cached == MapHas(intFormatters, key)
      made == IF currency # "" THEN NumberFormat("currency", currency, 0, 0)
              ELSE NumberFormat("decimal", "", 0, 0)
      fmt == IF cached THEN MapGet(intFormatters, key) ELSE made
  IN /\ ops < MaxOps
     /\ ops' = ops + 1
     /\ IF ~cached /\ currency # "" /\ ~IsWellFormedCurrencyCode(currency)
          THEN /\ ret' = [op |-> "fmtInt", arg |-> [n |-> n, key |-> key], out |-> RangeError]
               /\ UNCHANGED formatters
          ELSE /\ ret' = [op |-> "fmtInt", arg |-> [n |-> n, key |-> key],
                          out |-> Formatted(fmt, MathRound(n))]
               /\ constructed' = IF cached THEN constructed
                                 ELSE Append(constructed, Construction("int", key, made, n))
               /\ UNCHANGED <<intFormatters, currency2Formatters>>
     /\ UNCHANGED <<items, wallets, txs, dbBudgets, budgets, tz, now, nextUid>>

\* fmtInt(n, currency)
FmtInt(n, currency) ==
  LET key == IF currency # "" THEN currency ELSE "none"
      cached == MapHas(intFormatters, key)
      made == IF currency # "" THEN NumberFormat("currency", currency, 0, 0)
              ELSE NumberFormat("decimal", "", 0, 0)
      fmt == IF cached THEN MapGet(intFormatters, key) ELSE made
  IN /\ ops < MaxOps
     /\ ops' = ops + 1
     /\ IF ~cached /\ currency # "" /\ ~IsWellFormedCurrencyCode(currency)
          THEN /\ ret' = [op |-> "fmtInt", arg |-> [n |-> n, key |-> key], out |-> RangeError]
               /\ UNCHANGED formatters
          ELSE /\ ret' = [op |-> "fmtInt", arg |-> [n |-> n, key |-> key],
                          out |-> Formatted(fmt, MathRound(n))]
               /\ intFormatters' = IF cached THEN intFormatters
                                   ELSE MapSet(intFormatters, key, made)
               /\ constructed' = IF cached THEN constructed
                                 ELSE Append(constructed, Construction("int", key, made, n))
               /\ UNCHANGED currency2Formatters
     /\ UNCHANGED <<items, wallets, txs, dbBudgets, budgets, tz, now, nextUid>>

\* fmtCurrency2(n, currency)
FmtCurrency2(n, currency) ==
  LET key == IF currency # "" THEN currency ELSE "RUB"
      cached == MapHas(currency2Formatters, key)
      made == NumberFormat("currency", key, 2, 2)
      fmt == IF cached THEN MapGet(currency2Formatters, key) ELSE made
  IN /\ ops < MaxOps
     /\ ops' = ops + 1
     /\ IF ~cached /\ ~IsWellFormedCurrencyCode(key)
          THEN /\ ret' = [op |-> "fmtCurrency2", arg |-> [n |-> n, key |-> key],
                          out |-> RangeError]
               /\ UNCHANGED formatters
          ELSE /\ ret' = [op |-> "fmtCurrency2", arg |-> [n |-> n, key |-> key],
                          out |-> Formatted(fmt, ToFixed2(n))]
               /\ currency2Formatters' = IF cached THEN currency2Formatters
                                         ELSE MapSet(currency2Formatters, key, made)
               /\ constructed' = IF cached THEN constructed
                                 ELSE Append(constructed, Construction("currency2", key, made, n))
               /\ UNCHANGED intFormatters
     /\ UNCHANGED <<items, wallets, txs, dbBudgets, budgets, tz, now, nextUid>>

\* the numbers formatted: 1.5, 2.4 and 1234.567 units
FormatNumbers == {1500, 2400, 1234567}

NextFormat ==
  \/ \E n \in FormatNumbers, currency \in CurrencyArgs : FmtInt(n, currency)
  \/ \E n \in FormatNumbers, currency \in CurrencyArgs : FmtCurrency2(n, currency)

SpecFormat == Init /\ [][NextFormat]_vars

\* ===================================================== the item hierarchy
ParentOf(its, id) == its[ItemIndex(its, id)].parentId

\* the ids reached from the ids of S by following parentId any number of
\* times, S included (a fixpoint, reached in at most n rounds)
RECURSIVE UpClosure(_, _, _)
UpClosure(its, S, n) ==
  LET T == S \cup ({ParentOf(its, id) : id \in {x \in S : HasItem(its, x)}} \ {Null})
  IN IF n = 0 \/ T = S THEN S ELSE UpClosure(its, T, n - 1)

AncestorsOrSelf(its, id) == UpClosure(its, {id}, Len(its) + 1)

\* the proper ancestors of id
Ancestors(its, id) ==
  IF HasItem(its, id) /\ ParentOf(its, id) # Null
    THEN AncestorsOrSelf(its, ParentOf(its, id))
    ELSE {}

UniqueIds(its) == \A j, k \in DOMAIN its : its[j].id = its[k].id => j = k
NoDanglingParent(its) ==
  \A k \in DOMAIN its : its[k].parentId # Null => HasItem(its, its[k].parentId)
Acyclic(its) == \A id \in Ids(its) : id \notin Ancestors(its, id)

\* every non-null parentId names an existing item and there is no cycle
WellFormedForest(its) == UniqueIds(its) /\ NoDanglingParent(its) /\ Acyclic(its)

\* the ancestors of c, c included, that have no parent
RootsAbove(its, c) ==
  {a \in AncestorsOrSelf(its, c) : HasItem(its, a) /\ ParentOf(its, a) = Null}

\* the transactions of the month posted against an item whose root is r
TxsUnder(r, month) ==
  {k \in DOMAIN txs :
     /\ MonthKey(txs[k].date) = month
     /\ HasItem(items, txs[k].itemId)
     /\ r \in RootsAbove(items, txs[k].itemId)}

RECURSIVE TxAmountSum(_)
TxAmountSum(S) ==
  IF S = {} THEN 0
  ELSE LET k == CHOOSE x \in S : TRUE IN txs[k].amount + TxAmountSum(S \ {k})

\* C1: in a forest (every non-null parentId names an item, no cycle)
\* getRootId(c) returns the one ancestor-or-self of c that has no parent, and
\* actualByTopLevelForMonth(month) returns one entry per root that has
\* transactions of the month below it, holding the sum of their amounts, and
\* no entry for any item that is not a root.
C1_RootRollup ==
  WellFormedForest(items) =>
    /\ (ret.op = "getRootId" /\ HasItem(items, ret.arg)) =>
         /\ Cardinality(RootsAbove(items, ret.arg)) = 1
         /\ ret.out.kind = "return"
         /\ ret.out.val \in RootsAbove(items, ret.arg)
    /\ ret.op = "actualByTopLevelForMonth" =>
         /\ ret.out.kind = "return"
         /\ \A j, k \in DOMAIN ret.out.val :
              ret.out.val[j].itemId = ret.out.val[k].itemId => j = k
         /\ \A k \in DOMAIN ret.out.val :
              /\ HasItem(items, ret.out.val[k].itemId)
              /\ ParentOf(items, ret.out.val[k].itemId) = Null
              /\ ret.out.val[k].amount = TxAmountSum(TxsUnder(ret.out.val[k].itemId, ret.arg))
         /\ \A r \in Ids(items) :
              TxsUnder(r, ret.arg) # {} =>
                \E k \in DOMAIN ret.out.val : ret.out.val[k].itemId = r

\* C1 witness: a chain A -> A1 -> A1a, a transaction of the month posted
\* against A1a, and an entry of root A that holds more than that transaction
C1_Witness ==
  /\ WellFormedForest(items)
  /\ ret.op = "actualByTopLevelForMonth"
  /\ ret.out.kind = "return"
  /\ \E k \in DOMAIN txs, e \in DOMAIN ret.out.val :
       /\ MonthKey(txs[k].date) = ret.arg
       /\ HasItem(items, txs[k].itemId)
       /\ Cardinality(Ancestors(items, txs[k].itemId)) = 2
       /\ ret.out.val[e].itemId \in Ancestors(items, txs[k].itemId)
       /\ ret.out.val[e].amount > txs[k].amount

\* the parentId chain that starts at id runs into a cycle
ChainCyclic(its, id) ==
  \E a \in AncestorsOrSelf(its, id) : HasItem(its, a) /\ a \in Ancestors(its, a)

\* C2: getRootId terminates on every item table; on a chain that holds a
\* cycle it stops with a CorruptHierarchy failure, on any other it returns.
C2_RootResolutionTerminates ==
  ret.op = "getRootId" =>
    IF ChainCyclic(items, ret.arg)
      THEN ret.out.kind = "CorruptHierarchy"
      ELSE ret.out.kind = "return"

\* C3: from the demo seed, after any item saves through ItemForm (the parent
\* picked among the other items of the chosen type) and deletions through
\* ItemsPanel.onDelete, the parentId relation of the stored items has no cycle.
C3_ItemsFormForest == Acyclic(items)

\* ===================================================== the budget report
\* the sum of the amounts of a list of transactions or budget records
RECURSIVE AmountSum(_)
AmountSum(s) == IF s = << >> THEN 0 ELSE Head(s).amount + AmountSum(Tail(s))

\* what the ledger holds as expenses of category id dated in calendar month p
ExpenseOfMonth(id, p) ==
  LET Counts(t) == t.type = "expense" /\ t.itemId = id /\ MonthKey(t.date) = p
  IN AmountSum(SelectSeq(txs, Counts))

\* what the budget records hold for category id in month p
BudgetOfMonth(id, p) ==
  LET Counts(b) == b.itemId = id /\ b.period = p
  IN AmountSum(SelectSeq(budgets, Counts))

\* the actual spend a report shows for category id: its row's, 0 without a row
ActualShown(report, id) ==
  IF \E k \in DOMAIN report.rows : report.rows[k].itemId = id
    THEN report.rows[CHOOSE k \in DOMAIN report.rows : report.rows[k].itemId = id].actual
    ELSE 0

\* C4: the actual spend that buildBudgetReport shows for a category in period
\* P is that of the expense transactions dated in calendar month P, each day
\* of the month counted and no day of another month, on every host time zone.
C4_ActualOfCalendarMonth ==
  ret.op = "buildBudgetReport" =>
    \A k \in DOMAIN txs :
      ActualShown(ret.out, txs[k].itemId) = ToFixed2(ExpenseOfMonth(txs[k].itemId, ret.arg))

\* the unrounded budget, actual and difference of the categories of the rows
RECURSIVE RawSum(_, _, _)
RawSum(rows, p, field) ==
  IF rows = << >> THEN 0
  ELSE LET id == Head(rows).itemId
           b == BudgetOfMonth(id, p)
           a == ExpenseOfMonth(id, p)
       IN (CASE field = "budget" -> b
             [] field = "actual" -> a
             [] field = "difference" -> b - a) + RawSum(Tail(rows), p, field)

\* C8: the totals of buildBudgetReport are the 2-digit roundings of the sums
\* of the unrounded per-category budget, actual and difference values.
C8_TotalsSumThenRound ==
  ret.op = "buildBudgetReport" =>
    /\ ret.out.totals.budget = ToFixed2(RawSum(ret.out.rows, ret.arg, "budget"))
    /\ ret.out.totals.actual = ToFixed2(RawSum(ret.out.rows, ret.arg, "actual"))
    /\ ret.out.totals.difference = ToFixed2(RawSum(ret.out.rows, ret.arg, "difference"))

\* the sum of the difference fields of the rows of a report
RECURSIVE DifferenceSum(_, _)
DifferenceSum(rows, S) ==
  IF S = {} THEN 0
  ELSE LET k == CHOOSE x \in S : TRUE
       IN rows[k].difference + DifferenceSum(rows, S \ {k})

\* C9: totals.difference of a budget report is the 2-digit rounding of the
\* sum of the difference fields of its rows, whether or not that equals
\* totals.budget - totals.actual.
C9_TotalsDifferenceOfRows ==
  ret.op = "buildBudgetReport" =>
    ret.out.totals.difference =
      ToFixed2(DifferenceSum(ret.out.rows, DOMAIN ret.out.rows))

\* C9 witness: a report whose totals.difference is a cent away from
\* totals.budget - totals.actual
C9_Witness ==
  /\ ret.op = "buildBudgetReport"
  /\ ret.out.rows # << >>
  /\ ret.out.totals.difference # ret.out.totals.budget - ret.out.totals.actual
  /\ ret.out.totals.difference =
       ToFixed2(DifferenceSum(ret.out.rows, DOMAIN ret.out.rows))

\* C10: in every row of a budget report, difference = budget - actual on the
\* row's own rounded budget and actual fields.
C10_RowDifference ==
  ret.op = "buildBudgetReport" =>
    \A k \in DOMAIN ret.out.rows :
      ret.out.rows[k].difference = ret.out.rows[k].budget - ret.out.rows[k].actual

\* ===================================================== the monthly series
\* the period, income and expense of the buckets of a series
Buckets(out) ==
  [j \in DOMAIN out |->
     [period |-> out[j].monthKey, income |-> out[j].income, expense |-> out[j].expense]]

\* 2024-01 {income 1000, expense 120} and 2024-02 {income 0, expense 80}
ExampleBuckets ==
  << [period |-> Month(2024, 1), income |-> 1000000, expense |-> 120000],
     [period |-> Month(2024, 2), income |-> 0, expense |-> 80000] >>

NoRangeCallOnExample ==
  /\ ret.op = "buildMonthlySeries"
  /\ ret.arg.from = Omitted
  /\ ret.arg.to = Omitted
  /\ txs = ExampleLedger

DateLE(a, b) ==
  \/ a.y < b.y
  \/ a.y = b.y /\ a.m < b.m
  \/ a.y = b.y /\ a.m = b.m /\ a.d <= b.d

\* the date lies in the closed interval of the call: from the given from, or
\* 1 January of the host's current year, to the given to, or now
InClosedInterval(date) ==
  /\ DateLE(IF ret.arg.from = Omitted THEN Date(GetFullYear(now, tz), 1, 1)
            ELSE ret.arg.from[1], date)
  /\ IF ret.arg.to = Omitted THEN ParseDate(date) <= now
     ELSE DateLE(date, ret.arg.to[1])

\* the amounts of the given type and month among the transactions kept by Keep
TypeSum(type, month, Keep(_)) ==
  LET Counts(t) == t.type = type /\ MonthKey(t.date) = month /\ Keep(t.date)
  IN AmountSum(SelectSeq(txs, Counts))

\* C6: buildMonthlySeries(txs, from, to) buckets the transactions dated in
\* the closed interval [from, to] and no other, a left-out from being
\* 1 January of the current year and a left-out to being now.
C6_ClosedInterval ==
  ret.op = "buildMonthlySeries" =>
    /\ \A k \in DOMAIN txs :
         InClosedInterval(txs[k].date) =>
           \E j \in DOMAIN ret.out : ret.out[j].monthKey = MonthKey(txs[k].date)
    /\ \A j \in DOMAIN ret.out :
         /\ \E k \in DOMAIN txs :
              MonthKey(txs[k].date) = ret.out[j].monthKey /\ InClosedInterval(txs[k].date)
         /\ ret.out[j].income =
              MathRound(TypeSum("income", ret.out[j].monthKey, InClosedInterval))
         /\ ret.out[j].expense =
              MathRound(TypeSum("expense", ret.out[j].monthKey, InClosedInterval))

\* the sum of a field over the buckets of a series
RECURSIVE BucketSum(_, _, _)
BucketSum(out, S, field) ==
  IF S = {} THEN 0
  ELSE LET j == CHOOSE x \in S : TRUE
       IN out[j][field] + BucketSum(out, S \ {j}, field)

\* the amounts of a type among the transactions the call includes
IncludedSum(type) ==
  LET Counts(t) ==
        t.type = type /\ InSeriesRange(t.date, ret.arg.from, ret.arg.to, now, tz)
  IN AmountSum(SelectSeq(txs, Counts))

\* C7: the income fields of the buckets of a series add up to the amounts of
\* the included income transactions, and the expense fields to those of the
\* included expense transactions, fractional amounts included.
C7_Conservation ==
  ret.op = "buildMonthlySeries" =>
    /\ BucketSum(ret.out, DOMAIN ret.out, "income") = IncludedSum("income")
    /\ BucketSum(ret.out, DOMAIN ret.out, "expense") = IncludedSum("expense")

\* ===================================================== roots and orphans
\* the sum of |amount| over the transactions of a ledger dated in a month
RECURSIVE MonthAbsSum(_, _)
MonthAbsSum(ts, month) ==
  IF ts = << >> THEN 0
  ELSE (IF MonthKey(Head(ts).date) = month THEN Abs(Head(ts).amount) ELSE 0)
         + MonthAbsSum(Tail(ts), month)

\* the sum of the amounts of the entries of a rollup
RECURSIVE EntrySum(_)
EntrySum(es) == IF es = << >> THEN 0 ELSE Head(es).amount + EntrySum(Tail(es))

\* C15: the amounts that actualByTopLevelForMonth(month) returns add up to
\* the sum of |amount| over all transactions dated in the month, those whose
\* category id is not in the item table included.
C15_ActualCoversMonth ==
  (ret.op = "actualByTopLevelForMonth" /\ ret.out.kind = "return") =>
    EntrySum(ret.out.val) = MonthAbsSum(txs, ret.arg)

\* the item exists and its parentId names an id of no item
DanglingParent(its, id) ==
  /\ HasItem(its, id)
  /\ ParentOf(its, id) # Null
  /\ ~HasItem(its, ParentOf(its, id))

\* C17: for an item whose parentId names an id absent from the table,
\* getRootId returns the item's own id and raises no error.
C17_OrphanIsOwnRoot ==
  (ret.op = "getRootId" /\ DanglingParent(items, ret.arg)) =>
    ret.out = [kind |-> "return", val |-> ret.arg]

\* C17 witness: getRootId was called on an item with a missing parent and
\* returned the item's id
C17_Witness ==
  /\ ret.op = "getRootId"
  /\ DanglingParent(items, ret.arg)
  /\ ret.out.kind = "return"
  /\ ret.out.val = ret.arg

\* C18: for an id of no item, getRootId returns the id unchanged and raises
\* no error.
C18_UnknownIdUnchanged ==
  (ret.op = "getRootId" /\ ~HasItem(items, ret.arg)) =>
    ret.out = [kind |-> "return", val |-> ret.arg]

\* C18 witness: getRootId was called with an id of no item, on a table that
\* holds items, and returned it
C18_Witness ==
  /\ ret.op = "getRootId"
  /\ items # << >>
  /\ ~HasItem(items, ret.arg)
  /\ ret.out.kind = "return"
  /\ ret.out.val = ret.arg

\* ===================================================== the rows of the report
\* the category ids the ledger and the budget records name
CategoryIds ==
  {txs[k].itemId : k \in DOMAIN txs} \cup {budgets[k].itemId : k \in DOMAIN budgets}

HasBudgetEntry(id, p) == \E k \in DOMAIN budgets : budgets[k].itemId = id /\ budgets[k].period = p
HasExpense(id, p) ==
  \E k \in DOMAIN txs :
    txs[k].type = "expense" /\ txs[k].itemId = id /\ MonthKey(txs[k].date) = p

RowsOf(report, id) == {k \in DOMAIN report.rows : report.rows[k].itemId = id}

\* C11 as stated: the report holds exactly one row for each category id with
\* a budget entry for the period or expense spend in the period, no row for
\* a category with neither, no row whose budget and actual are both 0, and
\* no two rows with the same category id.
C11_RowPerCategory ==
  ret.op = "buildBudgetReport" =>
    /\ \A id \in CategoryIds :
         Cardinality(RowsOf(ret.out, id)) =
           (IF HasBudgetEntry(id, ret.arg) \/ HasExpense(id, ret.arg) THEN 1 ELSE 0)
    /\ \A k \in DOMAIN ret.out.rows :
         /\ ret.out.rows[k].itemId \in CategoryIds
         /\ ~(ret.out.rows[k].budget = 0 /\ ret.out.rows[k].actual = 0)

\* C11 amended: the report holds exactly one row for each category id whose
\* budget for the period or expense spend in the period, rounded to 2
\* digits, is positive, no row for any other category (none for a category
\* whose budget and spend both round to 0.00), and no two rows with the same
\* category id.
C11_RowPerPositiveCategory ==
  ret.op = "buildBudgetReport" =>
    /\ \A id \in CategoryIds :
         Cardinality(RowsOf(ret.out, id)) =
           (IF \/ ToFixed2(BudgetOfMonth(id, ret.arg)) > 0
               \/ ToFixed2(ExpenseOfMonth(id, ret.arg)) > 0 THEN 1 ELSE 0)
    /\ \A k \in DOMAIN ret.out.rows :
         /\ ret.out.rows[k].itemId \in CategoryIds
         /\ ~(ret.out.rows[k].budget = 0 /\ ret.out.rows[k].actual = 0)

\* C11 witness: a report with a row for one category and none for another
\* whose only spend in the period rounds to 0.00
C11_Witness ==
  /\ ret.op = "buildBudgetReport"
  /\ ret.out.rows # << >>
  /\ \E id \in CategoryIds :
       /\ HasExpense(id, ret.arg)
       /\ ~HasBudgetEntry(id, ret.arg)
       /\ RowsOf(ret.out, id) = {}

\* the InvalidPeriod failure
InvalidPeriod == [error |-> "InvalidPeriod"]

\* C12: for a period string that is not of the shape "YYYY-MM",
\* buildBudgetReport fails with InvalidPeriod and returns no report.
C12_InvalidPeriodFails ==
  (ret.op = "buildBudgetReport" /\ ~IsYearMonth(ret.arg)) => ret.out = InvalidPeriod

\* ===================================================== the budget stores
\* the list of the store the last upsert went to, each record as
\* [itemId, month, amount] with amount a number
StoreNow ==
  IF ret.store = "useDB" THEN dbBudgets
  ELSE [k \in DOMAIN budgets |->
          Budget(budgets[k].itemId, budgets[k].period, JNum(budgets[k].amount))]
StoreBefore ==
  IF ret.store = "useDB" THEN ret.before
  ELSE [k \in DOMAIN ret.before |->
          Budget(ret.before[k].itemId, ret.before[k].period, JNum(ret.before[k].amount))]

\* the records of a list with the key of the last upsert, and the others
WithKey(bs) ==
  LET Hit(b) == b.itemId = ret.itemId /\ b.month = ret.month IN SelectSeq(bs, Hit)
OtherKeys(bs) ==
  LET Miss(b) == ~(b.itemId = ret.itemId /\ b.month = ret.month) IN SelectSeq(bs, Miss)

StoredAmount(amount) ==
  IF ret.store = "useDB" /\ (amount.t # "number" \/ amount.n < 0) THEN JNum(0) ELSE amount

C14_DbBudgetKeysUnique ==
  \A j, k \in DOMAIN dbBudgets :
    (dbBudgets[j].itemId = dbBudgets[k].itemId /\ dbBudgets[j].month = dbBudgets[k].month)
      => j = k

\* C20: every budget entry of the ledger store and of the useBudgets store
\* has a non-negative amount.
C20_BudgetAmountsNonNegative ==
  /\ \A k \in DOMAIN dbBudgets :
       dbBudgets[k].amount.t = "number" /\ dbBudgets[k].amount.n >= 0
  /\ \A k \in DOMAIN budgets : budgets[k].amount >= 0

\* ===================================================== the budget rollup
\* the root a category id resolves to: its parentless ancestor-or-self, the
\* id itself when no item has it
RootOf(its, id) ==
  IF HasItem(its, id) /\ RootsAbove(its, id) # {}
    THEN CHOOSE r \in RootsAbove(its, id) : TRUE
    ELSE id

\* max(0, amount), 0 for an amount that is not a number
NonNegativePart(amount) ==
  IF amount.t = "number" /\ amount.n > 0 THEN amount.n ELSE 0

\* the sum of max(0, amount) over the budget records of a month under a root
RECURSIVE BudgetSumUnder(_, _, _)
BudgetSumUnder(bs, month, root) ==
  IF bs = << >> THEN 0
  ELSE (IF Head(bs).month = month /\ RootOf(items, Head(bs).itemId) = root
          THEN NonNegativePart(Head(bs).amount) ELSE 0)
         + BudgetSumUnder(Tail(bs), month, root)

\* C16: budgetByTopLevelForMonth(month) holds one entry per root that a
\* budget entry of the month resolves to, with the sum of max(0, amount) of
\* those entries (0 for a negative or non-numeric amount, nothing for other
\* months), and every value is non-negative.
C16_BudgetRollupClamped ==
  (ret.op = "budgetByTopLevelForMonth" /\ WellFormedForest(items)) =>
    /\ ret.out.kind = "return"
    /\ \A j, k \in DOMAIN ret.out.val : ret.out.val[j].k = ret.out.val[k].k => j = k
    /\ \A e \in DOMAIN ret.out.val :
         /\ ret.out.val[e].v = BudgetSumUnder(dbBudgets, ret.arg, ret.out.val[e].k)
         /\ ret.out.val[e].v >= 0
         /\ \E k \in DOMAIN dbBudgets :
              /\ dbBudgets[k].month = ret.arg
              /\ RootOf(items, dbBudgets[k].itemId) = ret.out.val[e].k
    /\ \A k \in DOMAIN dbBudgets :
         dbBudgets[k].month = ret.arg =>
           \E e \in DOMAIN ret.out.val : ret.out.val[e].k = RootOf(items, dbBudgets[k].itemId)

\* C16 witness: a month with a negative entry on a sub-category and a
\* positive entry on its root, rolled up to the root with the positive
\* amount alone
C16_Witness ==
  /\ ret.op = "budgetByTopLevelForMonth"
  /\ ret.out.kind = "return"
  /\ \E j, k \in DOMAIN dbBudgets, e \in DOMAIN ret.out.val :
       /\ dbBudgets[j].month = ret.arg /\ dbBudgets[k].month = ret.arg
       /\ dbBudgets[j].amount.t = "number" /\ dbBudgets[j].amount.n < 0
       /\ HasItem(items, dbBudgets[j].itemId)
       /\ ParentOf(items, dbBudgets[j].itemId) = dbBudgets[k].itemId
       /\ dbBudgets[k].amount.t = "number" /\ dbBudgets[k].amount.n > 0
       /\ ret.out.val[e].k = dbBudgets[k].itemId
       /\ ret.out.val[e].v = dbBudgets[k].amount.n

\* ===================================================== the expense structure
\* the total of the expense amounts the call takes as in range
InRangeExpenseTotal ==
  LET Counts(t) ==
        t.type = "expense" /\ InStructureRange(t.date, ret.arg.from, ret.arg.to, now, tz)
  IN AmountSum(SelectSeq(txs, Counts))

\* C19: on ledgers with non-negative amounts every row of
\* buildExpenseStructure has an integer share from 0 to 100, and the result
\* is empty when the in-range expense amounts add up to 0.
C19_ShareBound ==
  ret.op = "buildExpenseStructure" =>
    /\ \A k \in DOMAIN ret.out : ret.out[k].share \in 0..100
    /\ InRangeExpenseTotal = 0 => ret.out = << >>

\* C19 witness: a structure of two rows with the shares 33 and 67
C19_Witness ==
  /\ ret.op = "buildExpenseStructure"
  /\ Len(ret.out) = 2
  /\ {ret.out[1].share, ret.out[2].share} = {33, 67}

\* ============================================== the structure's grouping
\* the name the category of transaction t resolves to
CategoryName(t) ==
  IF \E k \in DOMAIN items : items[k].id = t.itemId
    THEN items[CHOOSE k \in DOMAIN items : items[k].id = t.itemId].name
    ELSE "Unknown"

\* the in-range expense transactions of the call whose category resolves to name
GroupOf(name) ==
  LET InGroup(t) ==
        /\ t.type = "expense"
        /\ InStructureRange(t.date, ret.arg.from, ret.arg.to, now, tz)
        /\ CategoryName(t) = name
  IN SelectSeq(txs, InGroup)

\* C21: buildExpenseStructure returns at most one row per distinct name, each
\* row's amount is the sum of the amounts of the in-range expense
\* transactions whose category resolves to the row's name, and the in-range
\* expense transactions posted against ids of no item all fall into one row
\* named "Unknown".
C21_GroupsByName ==
  ret.op = "buildExpenseStructure" =>
    /\ \A j, k \in DOMAIN ret.out : ret.out[j].item = ret.out[k].item => j = k
    /\ \A k \in DOMAIN ret.out : ret.out[k].amount = AmountSum(GroupOf(ret.out[k].item))
    /\ \A name \in {"Unknown"} \cup {items[k].name : k \in DOMAIN items} :
         GroupOf(name) # << >> => \E k \in DOMAIN ret.out : ret.out[k].item = name

\* C21 witness: two in-range expenses against two different ids of no item
\* give the one row named "Unknown" with the sum of both
C21_Witness ==
  /\ ret.op = "buildExpenseStructure"
  /\ {txs[k].itemId : k \in DOMAIN txs} = {8, 9}
  /\ ret.out = <<[item |-> "Unknown", amount |-> 2000, share |-> 100]>>

\* ============================================ the aggregations over time
\* C22: a call of an aggregation function made now, with the snapshot and
\* the parameters of the last call, returns what the last call returned,
\* whenever that call was made and whether or not it gave the range.
C22_SameArgumentsSameOutput ==
  /\ ret.op = "buildMonthlySeries" =>
       ret.out = BuildMonthlySeries(txs, ret.arg.from, ret.arg.to, now, tz)
  /\ ret.op = "buildExpenseStructure" =>
       ret.out = BuildExpenseStructure(txs, items, ret.arg.from, ret.arg.to, now, tz)
  /\ ret.op = "buildBudgetReport" =>
       ret.out = BuildBudgetReport(txs, items, budgets, ret.arg, tz)

\* ================================================== the transactions list
\* the place of the transaction with this id in the ledger
LedgerPlace(id) == CHOOSE k \in DOMAIN txs : txs[k].id = id

\* the transactions the list has to show for the search text
Shown(search) ==
  IF ToLowerCase[search] = "" THEN {txs[k] : k \in DOMAIN txs}
  ELSE {txs[k] : k \in {j \in DOMAIN txs :
                          Matches(items, wallets, txs[j], ToLowerCase[search])}}

\* C23: filteredTxs, with or without a search query, holds each transaction
\* to show once, ordered by date descending, and two transactions with the
\* same date stand in the order they have in the ledger.
C23_DateDescendingStable ==
  ret.op = "filteredTxs" =>
    /\ {ret.out[k] : k \in DOMAIN ret.out} = Shown(ret.arg)
    /\ Len(ret.out) = Cardinality(Shown(ret.arg))
    /\ \A j, k \in DOMAIN ret.out :
         j < k =>
           /\ DateLE(ret.out[k].date, ret.out[j].date)
           /\ ret.out[j].date = ret.out[k].date
                => LedgerPlace(ret.out[j].id) < LedgerPlace(ret.out[k].id)

\* C23 witness: a list of three transactions, two of them with the same
\* date, whose order differs from the ledger's
C23_Witness ==
  /\ ret.op = "filteredTxs"
  /\ Len(ret.out) = 3
  /\ ret.out # txs
  /\ \E j, k \in DOMAIN ret.out : j # k /\ ret.out[j].date = ret.out[k].date

\* ======================================================= the item types
\* C24: every stored item with a non-null parentId has the type of its
\* parent item.
C24_ParentOfSameType ==
  \A j, k \in DOMAIN items :
    items[j].parentId # Null /\ items[j].parentId = items[k].id
      => items[j].type = items[k].type

\* ================================================ transactions and items
\* C25: every stored transaction whose itemId names a stored item has the
\* type of that item.
C25_TxOfItemType ==
  \A j \in DOMAIN txs : \A k \in DOMAIN items :
    txs[j].itemId = items[k].id => txs[j].type = items[k].type

\* C26: no item that a stored transaction is posted against has a child item.
C26_PostedAgainstLeaf ==
  \A j \in DOMAIN txs : \A k \in DOMAIN items : items[k].parentId # txs[j].itemId

\* ========================================================== the formatters
\* the cache of a formatter variant
CacheOf(variant) == IF variant = "int" THEN intFormatters ELSE currency2Formatters

\* C27: each formatter variant constructs at most one formatter per cache
\* key; the key is the currency code of the call or the variant's sentinel
\* ('none' for fmtInt, 'RUB' for fmtCurrency2), whatever number is
\* formatted; and a call whose key is cached returns what the cached
\* formatter gives.
C27_OneFormatterPerKey ==
  /\ \A j, k \in DOMAIN constructed :
       constructed[j].variant = constructed[k].variant
         /\ constructed[j].key = constructed[k].key => j = k
  /\ \A k \in DOMAIN constructed :
       /\ constructed[k].key \in (CurrencyArgs \ {""})
            \cup {IF constructed[k].variant = "int" THEN "none" ELSE "RUB"}
       /\ MapHas(CacheOf(constructed[k].variant), constructed[k].key)
       /\ MapGet(CacheOf(constructed[k].variant), constructed[k].key) = constructed[k].fmt
  /\ ret.op \in {"fmtInt", "fmtCurrency2"} /\ ret.out.kind = "return" =>
       \E k \in DOMAIN constructed :
         /\ constructed[k].variant = (IF ret.op = "fmtInt" THEN "int" ELSE "currency2")
         /\ constructed[k].key = ret.arg.key
         /\ constructed[k].fmt = ret.out.fmt

\* C27 witness: fmtInt without a currency formats a number with the
\* formatter an earlier call, of another number, constructed under 'none',
\* and fmtCurrency2 has constructed its formatter for 'RUB'
C27_Witness ==
  /\ ret.op = "fmtInt" /\ ret.out.kind = "return" /\ ret.arg.key = "none"
  /\ Len(constructed) = 2
  /\ \E k \in DOMAIN constructed :
       /\ constructed[k].variant = "int" /\ constructed[k].key = "none"
       /\ constructed[k].n # ret.arg.n
  /\ \E k \in DOMAIN constructed :
       constructed[k].variant = "currency2" /\ constructed[k].key = "RUB"

\* ================================================ roots along parent links
\* C28: in an acyclic item table every item whose parentId names a stored
\* item has the root getRootId gives for that parent.
C28_RootOfParent ==
  UniqueIds(items) /\ Acyclic(items) =>
    \A j, k \in DOMAIN items :
      items[j].parentId # Null /\ items[j].parentId = items[k].id
        => GetRootId(items, items[j].id) = GetRootId(items, items[k].id)

\* ================================================== parents in the panel
\* C29: from the demo seed, after any item form saves and items panel
\* deletions, every non-null parentId of a stored item names a stored item.
C29_NoDanglingParentFromPanel == NoDanglingParent(items)

\* C29 witness: after a deletion the table still holds a child, with its parent
C29_Witness ==
  /\ Len(items) < Len(DEMO_DB.items)
  /\ \E j, k \in DOMAIN items : items[j].parentId # Null /\ items[j].parentId = items[k].id

\* ============================================================= the totals
\* the sum of initialBalance over the stored wallets
RECURSIVE InitialBalanceSum(_)
InitialBalanceSum(ws) ==
  IF ws = << >> THEN 0 ELSE Head(ws).initialBalance + InitialBalanceSum(Tail(ws))

\* C30: totals.totalBalance is the sum of initialBalance over the stored
\* wallets plus totals.income minus totals.expense.
C30_TotalBalanceIdentity ==
  Totals(wallets, txs).totalBalance
    = InitialBalanceSum(wallets) + Totals(wallets, txs).income - Totals(wallets, txs).expense

====
